---- MODULE Spec2Model ----
(***************************************************************************)
(* Model of packages/ra-core/src/auth/useAuthState.ts.                     *)
(*                                                                         *)
(* The hook wraps one react-query query keyed by ['auth','checkAuth',      *)
(* params].  The query cache is modelled per params value with the fields  *)
(* the hook reads (data, error, isLoading) and the fetch status that       *)
(* decides them.  Every action ends with the render it triggers: the       *)
(* two useEffect bodies run when their dependency arrays changed, and the  *)
(* useMemo value is recomputed.                                            *)
(*                                                                         *)
(* JavaScript strings are sequences of tokens (<<>> is the empty string),  *)
(* so that the login URL is really built and normalised.                   *)
(***************************************************************************)
EXTENDS Integers, Sequences, FiniteSets, TLC

\* ---------------------------------------------------------------- bounds
MaxFetches == 3      \* query fetches started over one behaviour
MaxRerenders == 1    \* re-renders of the hook with changed arguments
MaxUpdateClicks == 2 \* clicks on the bulk update button

\* ------------------------------------------------------------ JS values
JsUndefined == [t |-> "undefined", v |-> <<>>]
JsFalse == [t |-> "boolean", v |-> <<"false">>]
JsString(s) == [t |-> "string", v |-> s]

\* the values of params the consumer passes
Params == {"p1", "p2"}

\* AuthError.message : string | false | undefined
Messages == {JsUndefined, JsFalse, JsString(<<>>), JsString(<<"Session expired">>)}

\* AuthError.redirectTo?: string
RedirectTos == {JsUndefined, JsString(<<"/", "custom">>)}

\* the application mount paths ('' and '/admin')
Basenames == {<<>>, <<"/", "admin">>}

\* identities of the callbacks a consumer may pass; 0 is "not supplied"
SuccessCallbacks == 0..2
ErrorCallbacks == 0..1

\* result.error === null
NoError == [t |-> "null", message |-> JsUndefined, redirectTo |-> JsUndefined, id |-> 0]

\* the AuthError object a checkAuth call rejects with; id is the call that
\* produced it (every rejection is a fresh object).  Rejections are the
\* AuthError objects of the data model; the string and undefined branches of
\* getErrorMessage are kept as written but no rejection takes them.
AuthError(m, r, i) == [t |-> "object", message |-> m, redirectTo |-> r, id |-> i]

\* react-query rejects a queryFn that yields undefined with
\* new Error(`${queryHash} data is undefined`)
UndefinedDataError(i) ==
    AuthError(JsString(<<"data is undefined">>), JsUndefined, i)

DataUndefined == "undefined"
DataTrue == "true"

VARIABLES
    authProvider,     \* TRUE iff useAuthProvider() returns a provider
    params,           \* the params of the last render
    logoutOnFailure,  \* second argument of the hook
    onSuccess,        \* queryOptions.onSuccess (identity, 0 = absent)
    onError,          \* queryOptions.onError (identity, 0 = absent)
    basename,         \* useBasename()
    cache,            \* query state per query key
    depsSuccess,      \* dependency array of the onSuccess effect, last commit
    depsError,        \* dependency array of the error effect, last commit
    ret,              \* the value the hook returned at the last render
    lastCalls,        \* calls made by the effects of the last render
    lastEvent,        \* the event that caused the last render
    nFetch,           \* fetches started so far
    nRerender,        \* re-renders with changed arguments so far
    nCheckAuth,       \* calls of authProvider.checkAuth made so far
    inFlight,         \* per params, the checkAuth calls not yet settled
    dialog            \* the bulk update button, its confirmation dialog and
                      \* the list it acts on

vars == <<authProvider, params, logoutOnFailure, onSuccess, onError, basename,
          cache, depsSuccess, depsError, ret, lastCalls, lastEvent,
          nFetch, nRerender, nCheckAuth, inFlight, dialog>>

\* the state of useAuthState
authVars == <<authProvider, params, logoutOnFailure, onSuccess, onError,
              basename, cache, depsSuccess, depsError, ret, lastCalls,
              lastEvent, nFetch, nRerender, nCheckAuth, inFlight>>

\* ---------------------------------------------------------- the routing
\* defaultAuthParams.loginUrl
loginUrl == <<"/", "login">>

RECURSIVE removeDoubleSlashes(_)
\* collapses duplicate path separators
removeDoubleSlashes(path) ==
    IF Len(path) < 2 THEN path
    ELSE IF path[1] = "/" /\ path[2] = "/"
         THEN removeDoubleSlashes(Tail(path))
         ELSE <<path[1]>> \o removeDoubleSlashes(Tail(path))

\* ---------------------------------------------------------- react-query
\* a query that was never observed
NoQuery == [status |-> "none", fetching |-> FALSE, data |-> DataUndefined,
            error |-> NoError, call |-> 0, failureCount |-> 0]

\* the state of a query when a fetch starts: a query without data goes back
\* to pending and drops its error, a query with data keeps status and error
fetchState(q, i) ==
    IF q.data = DataUndefined
    THEN [status |-> "pending", fetching |-> TRUE, data |-> DataUndefined,
          error |-> NoError, call |-> i, failureCount |-> 0]
    ELSE [q EXCEPT !.fetching = TRUE, !.call = i, !.failureCount = 0]

\* retry: false
retry == 0

\* a variant with the library's default of three retries
shouldRetry_LibraryDefault(failureCount) == failureCount < 3

\* a failed fetch is retried while its failure count is below the retry option
shouldRetry(failureCount) == failureCount < retry

\* the fields of the useQuery result the hook reads
QueryResult(q) ==
    [data |-> q.data,
     error |-> q.error,
     isLoading |-> q.status = "pending" /\ q.fetching]

\* ----------------------------------------------------------- the effects
Call(fn, cb, err, str, opt) ==
    [fn |-> fn, cb |-> cb, err |-> err, str |-> str, opt |-> opt]

\* useEffect(() => { if (result.data && onSuccess) onSuccess(result.data) })
SuccessEffect(data, onS) ==
    IF data = DataTrue /\ onS # 0
    THEN <<Call("onSuccess", onS, NoError, <<>>, data)>>
    ELSE <<>>

\* a variant that only tests the message for undefined
getErrorMessage_NoEmptyCheck(error, defaultMessage) ==
    IF error.t = "string" THEN error.message.v
    ELSE IF error.t = "undefined" \/ error.message.t = "undefined"
         THEN defaultMessage
         ELSE error.message.v

\* typeof error === 'string' ? error
\*   : typeof error === 'undefined' || !error.message ? defaultMessage
\*   : error.message
getErrorMessage(error, defaultMessage) ==
    IF error.t = "string" THEN error.message.v
    ELSE IF error.t = "undefined"
            \/ error.message.t = "undefined"
            \/ error.message.t = "boolean"
            \/ (error.message.t = "string" /\ error.message.v = <<>>)
         THEN defaultMessage
         ELSE error.message.v

\* a variant that always redirects to the login URL
RedirectTarget_IgnoreRedirectTo(error, base) ==
    removeDoubleSlashes(base \o <<"/">> \o loginUrl)

\* result.error.redirectTo != null ? result.error.redirectTo : loginUrl
RedirectTarget(error, base) ==
    IF error.redirectTo.t # "undefined"
    THEN error.redirectTo.v
    ELSE removeDoubleSlashes(base \o <<"/">> \o loginUrl)

\* a variant that skips the notification on an absent message instead
shouldSkipNotify_Undefined(error) == error.message = JsUndefined

\* result.error && result.error.message === false
shouldSkipNotify(error) == error.message = JsFalse

\* the notify(...) statement of the error effect
NotifyCalls(error) ==
    IF shouldSkipNotify(error) THEN <<>>
    ELSE <<Call("notify", 0, NoError,
                getErrorMessage(error, <<"ra.auth.auth_check_error">>),
                "type:error")>>

\* a variant without the early return after onError
ErrorEffect_NoReturn(error, onE, lof, base) ==
    IF error.t = "null" THEN <<>>
    ELSE (IF onE # 0 THEN <<Call("onError", onE, error, <<>>, "")>> ELSE <<>>)
         \o (IF lof
             THEN <<Call("logout", 0, NoError, RedirectTarget(error, base), "{}")>>
                  \o NotifyCalls(error)
             ELSE <<>>)

\* a variant that notifies before it logs out
ErrorEffect_NotifyFirst(error, onE, lof, base) ==
    IF error.t = "null" THEN <<>>
    ELSE IF onE # 0 THEN <<Call("onError", onE, error, <<>>, "")>>
    ELSE IF lof
         THEN NotifyCalls(error)
              \o <<Call("logout", 0, NoError, RedirectTarget(error, base), "{}")>>
         ELSE <<>>

\* a variant that does not test logoutOnFailure
ErrorEffect_AlwaysLogout(error, onE, lof, base) ==
    IF error.t = "null" THEN <<>>
    ELSE IF onE # 0 THEN <<Call("onError", onE, error, <<>>, "")>>
    ELSE <<Call("logout", 0, NoError, RedirectTarget(error, base), "{}")>>
         \o NotifyCalls(error)

\* the body of the second useEffect
ErrorEffect(error, onE, lof, base) ==
    IF error.t = "null" THEN <<>>
    ELSE IF onE # 0 THEN <<Call("onError", onE, error, <<>>, "")>>
    ELSE IF lof
         THEN <<Call("logout", 0, NoError, RedirectTarget(error, base), "{}")>>
              \o NotifyCalls(error)
         ELSE <<>>

\* a variant that is not optimistic while loading
Authenticated_NotOptimistic(r, provider) ==
    IF r.data = DataTrue THEN TRUE ELSE ~provider

\* a variant that reports unauthenticated whenever the query holds an error
Authenticated_ErrorWins(r, provider) ==
    IF r.error.t # "null" THEN FALSE
    ELSE IF r.data # DataUndefined THEN r.data = DataTrue
    ELSE IF r.isLoading THEN TRUE ELSE ~provider

\* a variant that reports a failed query as unauthenticated without looking
\* at the provider
Authenticated_NoProviderCheck(r, provider) ==
    LET cond == IF r.data # DataUndefined THEN r.data = DataTrue
                ELSE r.isLoading
    IN  cond

\* result.data ?? result.isLoading ? true : authProvider == null
Authenticated(r, provider) ==
    LET cond == IF r.data # DataUndefined THEN r.data = DataTrue
                ELSE r.isLoading
    IN  IF cond THEN TRUE ELSE ~provider

\* the useMemo value
useAuthStateReturn(r, provider) ==
    [authenticated |-> Authenticated(r, provider),
     isLoading |-> r.isLoading,
     error |-> r.error]

SuccessDeps(onS, r) == <<onS, r.data>>
ErrorDeps(base, lof, onE, r) == <<base, "logout", lof, "notify", onE, r.error>>

\* a variant whose error effect has no dependency array and runs on every
\* render
Render_EffectEveryRender(c, p, lof, onS, onE, base) ==
    LET r == QueryResult(c[p])
        sdeps == SuccessDeps(onS, r)
        edeps == ErrorDeps(base, lof, onE, r)
    IN  /\ depsSuccess' = sdeps
        /\ depsError' = edeps
        /\ lastCalls' =
              (IF sdeps # depsSuccess THEN SuccessEffect(r.data, onS) ELSE <<>>)
              \o ErrorEffect(r.error, onE, lof, base)
        /\ ret' = useAuthStateReturn(r, authProvider)

\* one render of the hook over cache c with arguments p, lof, onS, onE, base,
\* followed by the effects whose dependencies changed
Render(c, p, lof, onS, onE, base) ==
    LET r == QueryResult(c[p])
        sdeps == SuccessDeps(onS, r)
        edeps == ErrorDeps(base, lof, onE, r)
    IN  /\ depsSuccess' = sdeps
        /\ depsError' = edeps
        /\ lastCalls' =
              (IF sdeps # depsSuccess THEN SuccessEffect(r.data, onS) ELSE <<>>)
              \o (IF edeps # depsError
                  THEN ErrorEffect(r.error, onE, lof, base) ELSE <<>>)
        /\ ret' = useAuthStateReturn(r, authProvider)

\* ------------------------------------------- BulkUpdateWithConfirmButton
\* the records of the list
RecordIds == {123, 124, 125}

\* the list is shown, nothing is selected, the dialog is closed
DialogStart ==
    [selectedIds |-> {}, isOpen |-> FALSE, updating |-> FALSE,
     updated |-> {}, clicks |-> 0, lastOp |-> "render"]

\* ------------------------------------------------------------------ Init
\* the hook has been mounted: the query exists and its first fetch is running
Init ==
    /\ authProvider \in BOOLEAN
    /\ params = "p1"      \* the other value is symmetric
    /\ logoutOnFailure \in BOOLEAN
    /\ onSuccess \in {0, 1}
    /\ onError \in {0, 1}
    /\ basename \in Basenames
    /\ cache = [p \in Params |->
                  IF p = params THEN fetchState(NoQuery, 1) ELSE NoQuery]
    /\ depsSuccess = SuccessDeps(onSuccess, QueryResult(cache[params]))
    /\ depsError = ErrorDeps(basename, logoutOnFailure, onError,
                             QueryResult(cache[params]))
    /\ ret = useAuthStateReturn(QueryResult(cache[params]), authProvider)
    /\ lastCalls = <<>>
    /\ lastEvent = [op |-> "mount", p |-> params]
    /\ nFetch = 1
    /\ nRerender = 0
    /\ nCheckAuth = (IF authProvider THEN 1 ELSE 0)
    /\ inFlight = [p \in Params |->
                     IF p = params /\ authProvider THEN 1 ELSE 0]
    /\ dialog = DialogStart

\* --------------------------------------------------------------- actions
\* the queryFn runs for key p when started holds: with an authProvider it
\* calls authProvider.checkAuth(p)
QueryFn(p, started) ==
    /\ nCheckAuth' = (IF started /\ authProvider
                      THEN nCheckAuth + 1 ELSE nCheckAuth)
    /\ inFlight' = [inFlight EXCEPT ![p] =
                      IF started /\ authProvider THEN @ + 1 ELSE @]

\* a variant in which a success leaves the error of the previous fetch in place
SettleSuccess_KeepError(p) ==
    /\ authProvider
    /\ cache[p].fetching
    /\ cache' = [cache EXCEPT ![p] =
                   [@ EXCEPT !.status = "success", !.fetching = FALSE,
                             !.data = DataTrue, !.call = 0]]
    /\ lastEvent' = [op |-> "success", p |-> p]
    /\ inFlight' = [inFlight EXCEPT ![p] = @ - 1]
    /\ Render(cache', params, logoutOnFailure, onSuccess, onError, basename)
    /\ UNCHANGED <<dialog, authProvider, params, logoutOnFailure, onSuccess, onError,
                   basename, nFetch, nRerender, nCheckAuth>>

\* a variant in which the hook shows the query that settled last, whatever
\* its key
SettleSuccess_Unkeyed(p) ==
    /\ authProvider
    /\ cache[p].fetching
    /\ cache' = [cache EXCEPT ![p] =
                   [status |-> "success", fetching |-> FALSE, data |-> DataTrue,
                    error |-> NoError, call |-> 0, failureCount |-> 0]]
    /\ lastEvent' = [op |-> "success", p |-> p]
    /\ inFlight' = [inFlight EXCEPT ![p] = @ - 1]
    /\ Render(cache', p, logoutOnFailure, onSuccess, onError, basename)
    /\ UNCHANGED <<dialog, authProvider, params, logoutOnFailure, onSuccess, onError,
                   basename, nFetch, nRerender, nCheckAuth>>

\* authProvider.checkAuth(p) resolves: .then(() => true)
SettleSuccess(p) ==
    /\ authProvider
    /\ cache[p].fetching
    /\ cache' = [cache EXCEPT ![p] =
                   [status |-> "success", fetching |-> FALSE, data |-> DataTrue,
                    error |-> NoError, call |-> 0, failureCount |-> 0]]
    /\ lastEvent' = [op |-> "success", p |-> p]
    /\ inFlight' = [inFlight EXCEPT ![p] = @ - 1]
    /\ Render(cache', params, logoutOnFailure, onSuccess, onError, basename)
    /\ UNCHANGED <<dialog, authProvider, params, logoutOnFailure, onSuccess, onError,
                   basename, nFetch, nRerender, nCheckAuth>>

\* a variant in which the hook shows the query that settled last, whatever
\* its key
SettleFailure_Unkeyed(p, m, r) ==
    /\ authProvider
    /\ cache[p].fetching
    /\ cache' = [cache EXCEPT ![p] =
                   [@ EXCEPT !.status = "error", !.fetching = FALSE,
                             !.error = AuthError(m, r, cache[p].call),
                             !.call = 0]]
    /\ lastEvent' = [op |-> "failure", p |-> p]
    /\ inFlight' = [inFlight EXCEPT ![p] = @ - 1]
    /\ Render(cache', p, logoutOnFailure, onSuccess, onError, basename)
    /\ UNCHANGED <<dialog, authProvider, params, logoutOnFailure, onSuccess, onError,
                   basename, nFetch, nRerender, nCheckAuth>>

\* authProvider.checkAuth(p) rejects with an AuthError: the query calls
\* checkAuth again while the retry option allows it, and is in error otherwise
SettleFailure(p, m, r) ==
    /\ authProvider
    /\ cache[p].fetching
    /\ IF shouldRetry(cache[p].failureCount)
       THEN /\ cache' = [cache EXCEPT ![p].failureCount = @ + 1]
            /\ lastEvent' = [op |-> "retry", p |-> p]
            /\ nCheckAuth' = nCheckAuth + 1
            /\ inFlight' = inFlight
       ELSE /\ cache' = [cache EXCEPT ![p] =
                           [@ EXCEPT !.status = "error", !.fetching = FALSE,
                                     !.error = AuthError(m, r, cache[p].call),
                                     !.call = 0]]
            /\ lastEvent' = [op |-> "failure", p |-> p]
            /\ nCheckAuth' = nCheckAuth
            /\ inFlight' = [inFlight EXCEPT ![p] = @ - 1]
    /\ Render(cache', params, logoutOnFailure, onSuccess, onError, basename)
    /\ UNCHANGED <<dialog, authProvider, params, logoutOnFailure, onSuccess, onError,
                   basename, nFetch, nRerender>>

\* no authProvider: authProvider?.checkAuth(...) is undefined, which the
\* query reports as an error
SettleUndefined(p) ==
    /\ ~authProvider
    /\ cache[p].fetching
    /\ cache' = [cache EXCEPT ![p] =
                   [@ EXCEPT !.status = "error", !.fetching = FALSE,
                             !.error = UndefinedDataError(cache[p].call),
                             !.call = 0]]
    /\ lastEvent' = [op |-> "undefined", p |-> p]
    /\ Render(cache', params, logoutOnFailure, onSuccess, onError, basename)
    /\ UNCHANGED <<dialog, authProvider, params, logoutOnFailure, onSuccess, onError,
                   basename, nFetch, nRerender, nCheckAuth, inFlight>>

\* the check is re-invoked for the observed key (refetch, invalidation,
\* window focus)
Refetch ==
    /\ ~cache[params].fetching
    /\ nFetch < MaxFetches
    /\ nFetch' = nFetch + 1
    /\ cache' = [cache EXCEPT ![params] = fetchState(@, nFetch')]
    /\ QueryFn(params, TRUE)
    /\ lastEvent' = [op |-> "refetch", p |-> params]
    /\ Render(cache', params, logoutOnFailure, onSuccess, onError, basename)
    /\ UNCHANGED <<dialog, authProvider, params, logoutOnFailure, onSuccess, onError,
                   basename, nRerender>>

\* a variant in which every mounting consumer runs the queryFn itself
MountConsumer_NoDeduplication ==
    /\ nFetch < MaxFetches
    /\ nFetch' = nFetch + 1
    /\ cache' = [cache EXCEPT ![params] = fetchState(@, nFetch')]
    /\ QueryFn(params, TRUE)
    /\ lastEvent' = [op |-> "consumer", p |-> params]
    /\ Render(cache', params, logoutOnFailure, onSuccess, onError, basename)
    /\ UNCHANGED <<dialog, authProvider, params, logoutOnFailure, onSuccess, onError,
                   basename, nRerender>>

\* another consumer calls useAuthState with the same params: its observer
\* joins the running fetch of the key, or starts one (the query is stale)
\* when none is running
MountConsumer ==
    /\ IF cache[params].fetching
       THEN /\ cache' = cache
            /\ nFetch' = nFetch
            /\ QueryFn(params, FALSE)
       ELSE /\ nFetch < MaxFetches
            /\ nFetch' = nFetch + 1
            /\ cache' = [cache EXCEPT ![params] = fetchState(@, nFetch')]
            /\ QueryFn(params, TRUE)
    /\ lastEvent' = [op |-> "consumer", p |-> params]
    /\ Render(cache', params, logoutOnFailure, onSuccess, onError, basename)
    /\ UNCHANGED <<dialog, authProvider, params, logoutOnFailure, onSuccess, onError,
                   basename, nRerender>>

\* the hook is rendered with another params value: the observer moves to that
\* key and fetches it (staleTime 0) unless a fetch of it is already running
ChangeParams(p) ==
    /\ p # params
    /\ params' = p
    /\ IF cache[p].fetching
       THEN /\ cache' = cache
            /\ nFetch' = nFetch
            /\ QueryFn(p, FALSE)
       ELSE /\ nFetch < MaxFetches
            /\ nFetch' = nFetch + 1
            /\ cache' = [cache EXCEPT ![p] = fetchState(@, nFetch')]
            /\ QueryFn(p, TRUE)
    /\ lastEvent' = [op |-> "params", p |-> p]
    /\ Render(cache', p, logoutOnFailure, onSuccess, onError, basename)
    /\ UNCHANGED <<dialog, authProvider, logoutOnFailure, onSuccess, onError,
                   basename, nRerender>>

\* the hook is rendered again with the same params and other arguments
\* (basename comes from the router context and stays what it was at mount)
Rerender(lof, onS, onE) ==
    /\ <<lof, onS, onE>> # <<logoutOnFailure, onSuccess, onError>>
    /\ nRerender < MaxRerenders
    /\ nRerender' = nRerender + 1
    /\ logoutOnFailure' = lof
    /\ onSuccess' = onS
    /\ onError' = onE
    /\ lastEvent' = [op |-> "rerender", p |-> params]
    /\ Render(cache, params, lof, onS, onE, basename)
    /\ UNCHANGED <<dialog, authProvider, params, basename, cache, nFetch, nCheckAuth,
                   inFlight>>

Next ==
    \/ \E p \in Params : SettleSuccess(p)
    \/ \E p \in Params, m \in Messages, r \in RedirectTos : SettleFailure(p, m, r)
    \/ \E p \in Params : SettleUndefined(p)
    \/ Refetch
    \/ MountConsumer
    \/ \E p \in Params : ChangeParams(p)
    \/ \E lof \in BOOLEAN, onS \in SuccessCallbacks, onE \in ErrorCallbacks :
          Rerender(lof, onS, onE)

Spec == Init /\ [][Next]_vars

\* the user ticks or unticks the checkbox of a record
ToggleSelect(id) ==
    /\ ~dialog.isOpen
    /\ dialog' = [dialog EXCEPT
                    !.selectedIds = IF id \in @ THEN @ \ {id} ELSE @ \cup {id},
                    !.lastOp = "select"]
    /\ UNCHANGED authVars

\* the user clicks the update button of the bulk actions toolbar, which is
\* shown while records are selected: the confirmation dialog opens
ClickUpdate ==
    /\ dialog.selectedIds # {}
    /\ ~dialog.isOpen
    /\ dialog.clicks < MaxUpdateClicks
    /\ dialog' = [dialog EXCEPT !.isOpen = TRUE, !.clicks = @ + 1,
                                !.lastOp = "clickUpdate"]
    /\ UNCHANGED authVars

\* the user dismisses the dialog
ClickCancel ==
    /\ dialog.isOpen
    /\ ~dialog.updating
    /\ dialog' = [dialog EXCEPT !.isOpen = FALSE, !.lastOp = "clickCancel"]
    /\ UNCHANGED authVars

\* the user clicks confirm: in pessimistic mode dataProvider.updateMany is
\* called and nothing else changes until it answers
ClickConfirm ==
    /\ dialog.isOpen
    /\ ~dialog.updating
    /\ dialog' = [dialog EXCEPT !.updating = TRUE, !.lastOp = "clickConfirm"]
    /\ UNCHANGED authVars

\* a variant that leaves the dialog open after the update
UpdateManySucceeds_KeepOpen ==
    /\ dialog.updating
    /\ dialog' = [dialog EXCEPT !.updating = FALSE,
                                !.updated = @ \cup dialog.selectedIds,
                                !.selectedIds = {},
                                !.lastOp = "updateManySuccess"]
    /\ UNCHANGED authVars

\* updateMany succeeds: the records are updated, the selection is cleared and
\* the dialog closes
UpdateManySucceeds ==
    /\ dialog.updating
    /\ dialog' = [dialog EXCEPT !.updating = FALSE,
                                !.isOpen = FALSE,
                                !.updated = @ \cup dialog.selectedIds,
                                !.selectedIds = {},
                                !.lastOp = "updateManySuccess"]
    /\ UNCHANGED authVars

\* updateMany fails: nothing is updated; whether the dialog stays is not
\* described
UpdateManyFails ==
    /\ dialog.updating
    /\ \E open \in BOOLEAN :
          dialog' = [dialog EXCEPT !.updating = FALSE, !.isOpen = open,
                                   !.lastOp = "updateManyFailure"]
    /\ UNCHANGED authVars

\* the list with the bulk update button, next to a settled useAuthState
DialogInit ==
    /\ Init
    /\ authProvider
    /\ params = "p1"
    /\ ~logoutOnFailure
    /\ onSuccess = 0
    /\ onError = 0
    /\ basename = <<>>

DialogNext ==
    \/ \E id \in RecordIds : ToggleSelect(id)
    \/ ClickUpdate
    \/ ClickCancel
    \/ ClickConfirm
    \/ UpdateManySucceeds
    \/ UpdateManyFails

DialogSpec == DialogInit /\ [][DialogNext]_vars

\* ---------------------------------------------------------------- claims
\* the checkAuth call for the observed params is outstanding
Outstanding == authProvider /\ cache[params].fetching

\* the last event is the rejection of the checkAuth call for the observed params
FailureSettled ==
    authProvider /\ lastEvent.op = "failure" /\ lastEvent.p = params

CallsOf(fn) == SelectSeq(lastCalls, LAMBDA c : c.fn = fn)

\* C1 (as stated): while the checkAuth call of the current cycle is
\* outstanding, the hook returns isLoading = true and authenticated = true
C1_AsStated == Outstanding => (ret.isLoading /\ ret.authenticated)

\* C1 (amended): while the checkAuth call is outstanding, the hook returns
\* authenticated = true, and isLoading = true exactly when no success value of
\* an earlier check of the same params is held
C1_Outstanding ==
    Outstanding =>
        /\ ret.authenticated
        /\ ret.isLoading <=> (cache[params].data = DataUndefined)

C1_Witness ==
    /\ Outstanding
    /\ lastEvent.op = "refetch"
    /\ cache[params].data = DataTrue
    /\ ~ret.isLoading
    /\ ret.authenticated

\* C2: without an AuthProvider the hook returns authenticated = true in every
\* state: query pending, settled or in error
C2_NoProviderAuthenticated == ~authProvider => ret.authenticated

C2_Witness ==
    /\ ~authProvider
    /\ cache[params].status = "error"
    /\ ret.error # NoError
    /\ ~ret.isLoading
    /\ ret.authenticated

\* C3: with an AuthProvider, once the most recent checkAuth call for the
\* observed params has settled by rejection, the hook returns isLoading =
\* false, authenticated = false and the rejection value as error, also when
\* an earlier cycle for the same params succeeded
C3_AsStated ==
    (authProvider /\ cache[params].status = "error" /\ ~cache[params].fetching)
        => ret = [authenticated |-> FALSE, isLoading |-> FALSE,
                  error |-> cache[params].error]

\* the state the hook returns for a resolved check
Resolved == [authenticated |-> TRUE, isLoading |-> FALSE, error |-> NoError]

\* C4: when checkAuth(params) resolves the hook returns isLoading = false,
\* authenticated = true and no error, and it keeps returning that until params
\* changes or the check is re-invoked
C4_ResolvedIsStable ==
    [][ /\ (lastEvent'.op = "success" /\ lastEvent'.p = params')
            => ret' = Resolved
        /\ (/\ ret = Resolved
            /\ cache[params].status = "success"
            /\ ~cache[params].fetching
            /\ params' = params
            /\ ~cache'[params].fetching)
            => ret' = Resolved ]_vars

C4_Witness ==
    /\ lastEvent.op = "rerender"
    /\ cache[params].status = "success"
    /\ ~cache[params].fetching
    /\ ret = Resolved

\* C5: a supplied onSuccess is invoked exactly once per settlement by success:
\* once when a checkAuth call for the observed params resolves, and not at all
\* on any other re-evaluation of the hook with the same params
C5_AsStated ==
    [][ (onSuccess # 0 /\ onSuccess' # 0 /\ params' = params)
          => Len(SelectSeq(lastCalls', LAMBDA c : c.fn = "onSuccess"))
               = (IF lastEvent'.op = "success" /\ lastEvent'.p = params
                  THEN 1 ELSE 0) ]_vars

\* C6: on provider failure with onError supplied, onError is invoked with the
\* AuthError, and neither logout nor notify is invoked, whatever
\* logoutOnFailure and the shape of the error
C6_OnErrorOnly ==
    onError # 0 =>
        /\ CallsOf("logout") = <<>>
        /\ CallsOf("notify") = <<>>
        /\ FailureSettled
             => CallsOf("onError")
                  = <<Call("onError", onError, cache[params].error, <<>>, "")>>

C6_Witness ==
    /\ FailureSettled
    /\ onError # 0
    /\ logoutOnFailure
    /\ cache[params].error.redirectTo # JsUndefined
    /\ Len(lastCalls) = 1
    /\ lastCalls[1].fn = "onError"

\* C7: on provider failure with logoutOnFailure and no onError, logout is
\* called with {} and with AuthError.redirectTo when the error carries one,
\* otherwise with the normalised basename + '/' + loginUrl ('/admin' gives
\* '/admin/login'), and never with another target
C7_LogoutTarget ==
    /\ \A i \in DOMAIN lastCalls :
          lastCalls[i].fn = "logout" =>
             /\ lastCalls[i].opt = "{}"
             /\ lastCalls[i].str =
                   (IF ret.error.redirectTo.t = "string"
                    THEN ret.error.redirectTo.v
                    ELSE IF basename = <<"/", "admin">>
                         THEN <<"/", "admin", "/", "login">>
                         ELSE <<"/", "login">>)
    /\ (FailureSettled /\ logoutOnFailure /\ onError = 0)
          => Len(CallsOf("logout")) = 1

C7_Witness ==
    /\ FailureSettled
    /\ logoutOnFailure
    /\ onError = 0
    /\ ret.error.redirectTo = JsUndefined
    /\ CallsOf("logout")
         = <<Call("logout", 0, NoError, <<"/", "admin", "/", "login">>, "{}")>>

\* C8: on a provider failure whose message is false notify is never called;
\* with logoutOnFailure and no onError logout is still called
C8_MessageFalseSilent ==
    ret.error.message = JsFalse =>
        /\ CallsOf("notify") = <<>>
        /\ (FailureSettled /\ logoutOnFailure /\ onError = 0)
             => Len(CallsOf("logout")) = 1

C8_Witness ==
    /\ FailureSettled
    /\ ret.error.message = JsFalse
    /\ logoutOnFailure
    /\ onError = 0
    /\ Len(lastCalls) = 1
    /\ lastCalls[1].fn = "logout"

\* C9: on provider failure with logoutOnFailure, no onError and a message
\* other than false, notify is called with {type: 'error'} and with the
\* message when it is a non-empty string, otherwise with
\* 'ra.auth.auth_check_error'
C9_NotifyMessage ==
    (FailureSettled /\ logoutOnFailure /\ onError = 0
       /\ ret.error.message # JsFalse)
      => CallsOf("notify")
           = <<Call("notify", 0, NoError,
                    IF ret.error.message.t = "string"
                       /\ ret.error.message.v # <<>>
                    THEN ret.error.message.v
                    ELSE <<"ra.auth.auth_check_error">>,
                    "type:error")>>

C9_Witness ==
    /\ FailureSettled
    /\ logoutOnFailure
    /\ onError = 0
    /\ ret.error.message = JsString(<<>>)
    /\ Len(CallsOf("notify")) = 1
    /\ CallsOf("notify")[1].str = <<"ra.auth.auth_check_error">>

\* C10: on provider failure with logoutOnFailure = false and no onError, no
\* logout, notify or callback is invoked; the error is exposed in the
\* returned state
C10_NoSideEffect ==
    (logoutOnFailure = FALSE /\ onError = 0) =>
        /\ CallsOf("logout") = <<>>
        /\ CallsOf("notify") = <<>>
        /\ CallsOf("onError") = <<>>
        /\ FailureSettled
             => /\ lastCalls = <<>>
                /\ ret.error = cache[params].error
                /\ ret.error.t = "object"

C10_Witness ==
    /\ FailureSettled
    /\ logoutOnFailure = FALSE
    /\ onError = 0
    /\ onSuccess # 0
    /\ lastCalls = <<>>
    /\ ret.error.t = "object"

\* the calls a failure may cause
FailureCalls(calls) ==
    SelectSeq(calls, LAMBDA c : c.fn \in {"onError", "logout", "notify"})

\* C11: with the default config every fetch of the query issues exactly one
\* checkAuth call: a rejection is followed by no further call until params
\* changes or the check is re-invoked
C11_NoRetry ==
    [][ /\ nCheckAuth' - nCheckAuth
             = (IF authProvider THEN nFetch' - nFetch ELSE 0)
        /\ nFetch' # nFetch
             => /\ nFetch' = nFetch + 1
                /\ lastEvent'.op \in {"refetch", "params", "consumer"}
        /\ (authProvider /\ \E p \in Params :
                               cache[p].fetching /\ ~cache'[p].fetching
                               /\ cache'[p].status = "error")
             => /\ nCheckAuth' = nCheckAuth
                /\ \A p \in Params : inFlight'[p] <= inFlight[p] ]_vars

C11_Witness ==
    /\ authProvider
    /\ lastEvent.op = "failure"
    /\ lastEvent.p = params
    /\ cache[params].status = "error"
    /\ ~cache[params].fetching
    /\ nCheckAuth = 1
    /\ inFlight[params] = 0

C13_EffectsOnce ==
    [][ /\ \A fn \in {"onError", "logout", "notify"} :
              Len(SelectSeq(lastCalls', LAMBDA c : c.fn = fn)) <= 1
        /\ depsError' = depsError => FailureCalls(lastCalls') = <<>> ]_vars

C13_Witness ==
    /\ authProvider
    /\ lastEvent.op = "rerender"
    /\ ret.error.t = "object"
    /\ logoutOnFailure
    /\ onError = 0
    /\ lastCalls = <<>>

\* C14: the settlement of a checkAuth call for params the hook no longer
\* observes changes nothing in the state the hook returns and triggers no
\* onSuccess, onError, logout or notify
C14_StaleSettlement ==
    [][ (/\ lastEvent'.op \in {"success", "failure", "undefined"}
         /\ lastEvent'.p # params'
         /\ cache[lastEvent'.p].fetching
         /\ ~cache'[lastEvent'.p].fetching)
          => /\ ret' = ret
             /\ params' = params
             /\ lastCalls' = <<>> ]_vars

C14_Witness ==
    /\ authProvider
    /\ lastEvent.op = "failure"
    /\ lastEvent.p # params
    /\ cache[lastEvent.p].status = "error"
    /\ logoutOnFailure
    /\ onError = 0
    /\ ret.isLoading
    /\ ret.error = NoError
    /\ lastCalls = <<>>

Category(r) ==
    IF r.isLoading THEN "Pending"
    ELSE IF r.authenticated THEN "Authenticated" ELSE "Unauthenticated"

\* C16: a settled result does not go back to Pending and does not switch
\* between Authenticated and Unauthenticated unless params changes or the
\* check is re-invoked, and the settlement of the observed check ends Pending
C16_OneShot ==
    [][ /\ (Category(ret) # "Pending" /\ params' = params /\ nFetch' = nFetch)
             => Category(ret') = Category(ret)
        /\ (/\ Category(ret) = "Pending"
            /\ params' = params
            /\ lastEvent'.op \in {"success", "failure", "undefined"}
            /\ lastEvent'.p = params)
             => Category(ret') # "Pending" ]_vars

C16_Witness ==
    /\ authProvider
    /\ lastEvent.op = "success"
    /\ lastEvent.p # params
    /\ Category(ret) = "Unauthenticated"

\* C17: without an AuthProvider the hook never invokes logout, notify or
\* onError, whatever params and logoutOnFailure
C17_AsStated == ~authProvider => FailureCalls(lastCalls) = <<>>

\* C18: authenticated = false implies that an AuthProvider is configured,
\* isLoading = false, error is set and no success value is held for the
\* observed params
C18_UnauthenticatedMeans ==
    ~ret.authenticated =>
        /\ authProvider
        /\ ~ret.isLoading
        /\ ret.error # NoError
        /\ cache[params].data = DataUndefined
        /\ cache[params].status = "error"

C18_Witness ==
    /\ ~ret.authenticated
    /\ ret.error.t = "object"
    /\ lastEvent.op = "failure"

\* C19: when a failure triggers logout and notify, logout is invoked first,
\* and notify is never invoked without a logout before it
C19_LogoutBeforeNotify ==
    \A i \in DOMAIN lastCalls :
        lastCalls[i].fn = "notify"
          => \E j \in 1..(i - 1) : lastCalls[j].fn = "logout"

C19_Witness ==
    /\ FailureSettled
    /\ Len(lastCalls) = 2
    /\ lastCalls[1].fn = "logout"
    /\ lastCalls[2].fn = "notify"
====
